---- MODULE Spec2Model ----
(***************************************************************************)
(* Model of the exchange client DOF._exec (src/src/dof.py): one blocking   *)
(* request/response exchange over a TCP socket followed by the unwrapping   *)
(* of the peer's JSON envelope.                                             *)
(*                                                                         *)
(* Text is a sequence of one-character strings; bytes are the same symbols  *)
(* for ASCII, plus the two bytes "xC3" and "xA9" of the UTF-8 encoding of   *)
(* the non-ASCII character "é".  Python values are records                  *)
(* [k, s, items]: k is the Python type, s the characters of a str or the    *)
(* lexeme of a number, items the elements of a list or the key/value pairs  *)
(* of a dict.                                                               *)
(***************************************************************************)
EXTENDS Integers, Sequences, FiniteSets, TLC

(***************************************************************************)
(* Bounds of the model.                                                     *)
(***************************************************************************)
MaxCalls == 2
MaxPayloadLen == 2
MaxShortReply == 2
MaxSegment == 8
MaxCommands == 2

(***************************************************************************)
(* Program constants.                                                       *)
(***************************************************************************)
RecvBufSize == 4096

(***************************************************************************)
(* Characters and bytes.                                                    *)
(***************************************************************************)
EAcute == "é"
ByteC3 == "xC3"
ByteA9 == "xA9"
OtherChar == "U+"
Backspace == "BS"

Digits == {"0", "1", "2", "3", "4", "5", "6", "7", "8", "9"}
HexDigits == Digits \cup {"a", "b", "c", "d", "e", "f", "A", "B", "C", "D", "E", "F"}
JsonWS == {" ", "\t", "\n", "\r"}
PyWhitespace == {" ", "\t", "\n", "\r", "\f"}
ControlChars == {"\t", "\n", "\r", "\f", Backspace}

\* s[i:i+1]: the character at position i, or the empty slice
At(t, i) == IF i >= 1 /\ i <= Len(t) THEN t[i] ELSE ""

\* str.encode("utf-8")
RECURSIVE Encode(_)
Encode(s) ==
    IF s = <<>> THEN <<>>
    ELSE IF Len(s) = 1 THEN (IF s[1] = EAcute THEN <<ByteC3, ByteA9>> ELSE s)
    ELSE Encode(SubSeq(s, 1, Len(s) \div 2)) \o Encode(SubSeq(s, Len(s) \div 2 + 1, Len(s)))

\* the first byte that is not part of a well-formed sequence, past the end when all are
FirstBadByte(b) ==
    CHOOSE i \in 1..(Len(b) + 1) :
        LET Bad(j) == \/ b[j] = ByteC3 /\ ~(j < Len(b) /\ b[j + 1] = ByteA9)
                      \/ b[j] = ByteA9 /\ ~(j > 1 /\ b[j - 1] = ByteC3)
        IN  /\ i = Len(b) + 1 \/ Bad(i)
            /\ \A j \in 1..(i - 1) : ~Bad(j)

IsLeadByte(c) == c # ByteA9

\* bytearray.decode("utf-8"): ok = FALSE stands for UnicodeDecodeError; s is the text
\* before the first malformed byte
Decode(b) ==
    LET lead == SelectSeq(SubSeq(b, 1, FirstBadByte(b) - 1), IsLeadByte)
    IN  [ok |-> FirstBadByte(b) = Len(b) + 1,
         s |-> [i \in 1..Len(lead) |-> IF lead[i] = ByteC3 THEN EAcute ELSE lead[i]]]

\* str.rstrip("\n")
RECURSIVE RStripNewlines(_)
RStripNewlines(s) ==
    IF s # <<>> /\ s[Len(s)] = "\n" THEN RStripNewlines(SubSeq(s, 1, Len(s) - 1)) ELSE s

\* src.rstrip("\n") + "\n"
NormalizeAppend(s) == s \o <<"\n">>
Normalize(s) == RStripNewlines(s) \o <<"\n">>

\* str.strip()
RECURSIVE LStrip(_)
LStrip(s) == IF s # <<>> /\ Head(s) \in PyWhitespace THEN LStrip(Tail(s)) ELSE s
RECURSIVE RStrip(_)
RStrip(s) ==
    IF s # <<>> /\ s[Len(s)] \in PyWhitespace THEN RStrip(SubSeq(s, 1, Len(s) - 1)) ELSE s
Strip(s) == RStrip(LStrip(s))

(***************************************************************************)
(* Python values.                                                           *)
(***************************************************************************)
PyNone == [k |-> "None", s |-> <<>>, items |-> <<>>]
PyBool(b) == [k |-> "bool", s |-> IF b THEN <<"T">> ELSE <<"F">>, items |-> <<>>]
PyStr(s) == [k |-> "str", s |-> s, items |-> <<>>]
PyNum(lexeme) == [k |-> "num", s |-> lexeme, items |-> <<>>]
PyList(elems) == [k |-> "list", s |-> <<>>, items |-> elems]
PyDict(pairs) == [k |-> "dict", s |-> <<>>, items |-> pairs]

IsStr(v, s) == v.k = "str" /\ v.s = s

\* the digits of the mantissa of a number lexeme
RECURSIVE Mantissa(_)
Mantissa(lexeme) ==
    IF lexeme = <<>> \/ Head(lexeme) \in {"e", "E"} THEN <<>>
    ELSE (IF Head(lexeme) \in Digits THEN <<Head(lexeme)>> ELSE <<>>) \o Mantissa(Tail(lexeme))

\* bool(v)
Truthy(v) ==
    CASE v.k = "None" -> FALSE
      [] v.k = "bool" -> v.s = <<"T">>
      [] v.k = "str"  -> v.s # <<>>
      [] v.k = "num"  -> \/ v.s \in {<<"N", "a", "N">>,
                                     <<"I", "n", "f", "i", "n", "i", "t", "y">>,
                                     <<"-", "I", "n", "f", "i", "n", "i", "t", "y">>}
                         \/ \E i \in 1..Len(Mantissa(v.s)) : Mantissa(v.s)[i] # "0"
      [] OTHER        -> v.items # <<>>

\* str(v) as used in an f-string, for str, None, bool and int values
StrOf(v) ==
    CASE v.k = "str"  -> v.s
      [] v.k = "None" -> <<"N", "o", "n", "e">>
      [] v.k = "bool" -> IF v.s = <<"T">> THEN <<"T", "r", "u", "e">>
                         ELSE <<"F", "a", "l", "s", "e">>
      [] v.k = "num"  -> IF v.s = <<"-", "0">> THEN <<"0">> ELSE v.s
      [] OTHER        -> <<OtherChar>>

\* dict.get(key, default): the last pair with that key wins
RECURSIVE DictGet(_, _, _)
DictGet(pairs, key, default) ==
    IF pairs = <<>> THEN default
    ELSE IF pairs[Len(pairs)].key = key THEN pairs[Len(pairs)].val
    ELSE DictGet(SubSeq(pairs, 1, Len(pairs) - 1), key, default)

(***************************************************************************)
(* json.loads                                                               *)
(***************************************************************************)
Fail == [ok |-> FALSE, v |-> PyNone, end |-> 0]
Ok(v, e) == [ok |-> TRUE, v |-> v, end |-> e]

\* WHITESPACE.match(s, i).end()
RECURSIVE SkipWS(_, _)
SkipWS(t, i) == IF At(t, i) \in JsonWS THEN SkipWS(t, i + 1) ELSE i

RECURSIVE SkipDigits(_, _)
SkipDigits(t, i) == IF At(t, i) \in Digits THEN SkipDigits(t, i + 1) ELSE i

\* NUMBER_RE.match(s, i): the end of the match, 0 when there is none
MatchNumber(t, i) ==
    LET j == IF At(t, i) = "-" THEN i + 1 ELSE i
        intEnd == IF At(t, j) = "0" THEN j + 1
                  ELSE IF At(t, j) \in Digits THEN SkipDigits(t, j) ELSE 0
        fracEnd == IF intEnd # 0 /\ At(t, intEnd) = "." /\ At(t, intEnd + 1) \in Digits
                   THEN SkipDigits(t, intEnd + 1) ELSE intEnd
        k == IF At(t, fracEnd + 1) \in {"+", "-"} THEN fracEnd + 2 ELSE fracEnd + 1
    IN  IF fracEnd # 0 /\ At(t, fracEnd) \in {"e", "E"} /\ At(t, k) \in Digits
        THEN SkipDigits(t, k) ELSE fracEnd

\* s[i:i+len(word)] == word
Matches(t, i, word) == i + Len(word) - 1 <= Len(t) /\ SubSeq(t, i, i + Len(word) - 1) = word

\* the character of a \uXXXX escape
CodePoint(h) ==
    IF h \in {<<"0", "0", "e", "9">>, <<"0", "0", "E", "9">>} THEN EAcute
    ELSE IF h \in {<<"0", "0", "0", "a">>, <<"0", "0", "0", "A">>} THEN "\n"
    ELSE IF h = <<"0", "0", "0", "9">> THEN "\t"
    ELSE IF h \in {<<"0", "0", "0", "d">>, <<"0", "0", "0", "D">>} THEN "\r"
    ELSE IF h \in {<<"0", "0", "0", "c">>, <<"0", "0", "0", "C">>} THEN "\f"
    ELSE IF h = <<"0", "0", "0", "8">> THEN Backspace
    ELSE IF h = <<"0", "0", "2", "0">> THEN " "
    ELSE OtherChar

\* BACKSLASH of json.decoder
Unescape(c) ==
    CASE c = "b" -> Backspace
      [] c = "f" -> "\f"
      [] c = "n" -> "\n"
      [] c = "r" -> "\r"
      [] c = "t" -> "\t"
      [] OTHER   -> c

\* STRINGCHUNK.match(s, end): the end of the run of plain characters, which is the
\* position of the next quote, backslash or control character, or past the text
ChunkEnd(t, i) ==
    CHOOSE j \in i..(Len(t) + 1) :
        /\ j = Len(t) + 1 \/ t[j] \in {"\"", "\\"} \cup ControlChars
        /\ \A k \in i..(j - 1) : t[k] \notin {"\"", "\\"} \cup ControlChars

\* py_scanstring(s, end, strict=True): i is the position after the opening quote
RECURSIVE ScanString(_, _, _)
ScanString(t, i, acc) ==
    LET j == ChunkEnd(t, i)
        c == At(t, j)
        e == At(t, j + 1)
        chunks == acc \o SubSeq(t, i, j - 1)
        bad == [ok |-> FALSE, s |-> <<>>, end |-> 0]
    IN  IF c = "" THEN bad
        ELSE IF c = "\"" THEN [ok |-> TRUE, s |-> chunks, end |-> j + 1]
        ELSE IF c \in ControlChars THEN bad
        ELSE IF e = "u"
             THEN IF \A d \in 2..5 : At(t, j + d) \in HexDigits
                  THEN ScanString(t, j + 6, Append(chunks, CodePoint(SubSeq(t, j + 2, j + 5))))
                  ELSE bad
        ELSE IF e \in {"\"", "\\", "/", "b", "f", "n", "r", "t"}
             THEN ScanString(t, j + 2, Append(chunks, Unescape(e)))
        ELSE bad

\* py_make_scanner._scan_once, JSONObject and JSONArray of json.decoder
RECURSIVE ScanOnce(_, _)
RECURSIVE ParseMembers(_, _, _)
RECURSIVE ParseElements(_, _, _)

JSONObject(t, i) ==
    LET j == SkipWS(t, i)
    IN  IF At(t, j) = "}" THEN Ok(PyDict(<<>>), j + 1)
        ELSE IF At(t, j) # "\"" THEN Fail
        ELSE ParseMembers(t, j + 1, <<>>)

JSONArray(t, i) ==
    LET j == SkipWS(t, i)
    IN  IF At(t, j) = "]" THEN Ok(PyList(<<>>), j + 1)
        ELSE ParseElements(t, j, <<>>)

ParseMembers(t, i, pairs) ==
    LET key == ScanString(t, i, <<>>)
        colon == SkipWS(t, key.end)
        val == ScanOnce(t, SkipWS(t, colon + 1))
        n == SkipWS(t, val.end)
        pairs2 == Append(pairs, [key |-> key.s, val |-> val.v])
        q == SkipWS(t, n + 1)
    IN  IF ~key.ok THEN Fail
        ELSE IF At(t, colon) # ":" THEN Fail
        ELSE IF ~val.ok THEN Fail
        ELSE IF At(t, n) = "}" THEN Ok(PyDict(pairs2), n + 1)
        ELSE IF At(t, n) # "," THEN Fail
        ELSE IF At(t, q) # "\"" THEN Fail
        ELSE ParseMembers(t, q + 1, pairs2)

ParseElements(t, i, elems) ==
    LET val == ScanOnce(t, i)
        n == SkipWS(t, val.end)
        elems2 == Append(elems, val.v)
    IN  IF ~val.ok THEN Fail
        ELSE IF At(t, n) = "]" THEN Ok(PyList(elems2), n + 1)
        ELSE IF At(t, n) # "," THEN Fail
        ELSE ParseElements(t, SkipWS(t, n + 1), elems2)

ScanOnce(t, i) ==
    LET c == At(t, i)
        str == ScanString(t, i + 1, <<>>)
        num == MatchNumber(t, i)
    IN  IF c = "" THEN Fail
        ELSE IF c = "\"" THEN (IF str.ok THEN Ok(PyStr(str.s), str.end) ELSE Fail)
        ELSE IF c = "{" THEN JSONObject(t, i + 1)
        ELSE IF c = "[" THEN JSONArray(t, i + 1)
        ELSE IF Matches(t, i, <<"n", "u", "l", "l">>) THEN Ok(PyNone, i + 4)
        ELSE IF Matches(t, i, <<"t", "r", "u", "e">>) THEN Ok(PyBool(TRUE), i + 4)
        ELSE IF Matches(t, i, <<"f", "a", "l", "s", "e">>) THEN Ok(PyBool(FALSE), i + 5)
        ELSE IF num # 0 THEN Ok(PyNum(SubSeq(t, i, num - 1)), num)
        ELSE IF Matches(t, i, <<"N", "a", "N">>) THEN Ok(PyNum(<<"N", "a", "N">>), i + 3)
        ELSE IF Matches(t, i, <<"I", "n", "f", "i", "n", "i", "t", "y">>)
             THEN Ok(PyNum(<<"I", "n", "f", "i", "n", "i", "t", "y">>), i + 8)
        ELSE IF Matches(t, i, <<"-", "I", "n", "f", "i", "n", "i", "t", "y">>)
             THEN Ok(PyNum(<<"-", "I", "n", "f", "i", "n", "i", "t", "y">>), i + 9)
        ELSE Fail

\* json.loads(s): ok = FALSE stands for json.JSONDecodeError
Loads(t) ==
    LET r == ScanOnce(t, SkipWS(t, 1))
    IN  IF r.ok /\ SkipWS(t, r.end) = Len(t) + 1
        THEN [ok |-> TRUE, v |-> r.v]
        ELSE [ok |-> FALSE, v |-> PyNone]

(***************************************************************************)
(* json.dumps                                                               *)
(***************************************************************************)
\* ESCAPE_DCT of json.encoder with ensure_ascii=True
EscapeChar(c) ==
    CASE c = "\"" -> <<"\\", "\"">>
      [] c = "\\" -> <<"\\", "\\">>
      [] c = "\n" -> <<"\\", "n">>
      [] c = "\r" -> <<"\\", "r">>
      [] c = "\t" -> <<"\\", "t">>
      [] c = "\f" -> <<"\\", "f">>
      [] c = Backspace -> <<"\\", "b">>
      [] c = EAcute -> <<"\\", "u", "0", "0", "e", "9">>
      [] OTHER -> <<c>>

RECURSIVE EscapeAll(_)
EscapeAll(s) ==
    IF s = <<>> THEN <<>>
    ELSE IF Len(s) = 1 THEN EscapeChar(s[1])
    ELSE EscapeAll(SubSeq(s, 1, Len(s) \div 2)) \o EscapeAll(SubSeq(s, Len(s) \div 2 + 1, Len(s)))

\* py_encode_basestring_ascii
DumpsStr(s) == <<"\"">> \o EscapeAll(s) \o <<"\"">>

\* json.dumps({"status": "success", "message": message})
SuccessEnvelope(message) ==
    <<"{">> \o DumpsStr(<<"s", "t", "a", "t", "u", "s">>) \o <<":", " ">>
            \o DumpsStr(<<"s", "u", "c", "c", "e", "s", "s">>) \o <<",", " ">>
            \o DumpsStr(<<"m", "e", "s", "s", "a", "g", "e">>) \o <<":", " ">>
            \o DumpsStr(message) \o <<"}">>

(***************************************************************************)
(* The peer's replies.  The envelope is rendered the way the peer's        *)
(* json.dumps renders it; the other replies are the decode anomalies and   *)
(* every short byte string over ShortBytes.                                 *)
(***************************************************************************)
KStatus == <<"s", "t", "a", "t", "u", "s">>
KOutput == <<"o", "u", "t", "p", "u", "t">>
KError == <<"e", "r", "r", "o", "r">>
KMessage == <<"m", "e", "s", "s", "a", "g", "e">>
SOk == <<"o", "k">>
SSuccess == <<"s", "u", "c", "c", "e", "s", "s">>
SBoom == <<"b", "o", "o", "m">>
SUnknownError == <<"U", "n", "k", "n", "o", "w", "n", " ", "e", "r", "r", "o", "r">>
SIsaacSimError == <<"I", "s", "a", "a", "c", " ", "S", "i", "m", " ", "e", "r", "r", "o", "r", ":", " ">>
SNoOutput == <<"O", "p", "e", "r", "a", "t", "i", "o", "n", " ", "c", "o", "m", "p", "l", "e", "t", "e", "d", " ", "(", "n", "o", " ", "o", "u", "t", "p", "u", "t", ")">>
SCompleted == <<"O", "p", "e", "r", "a", "t", "i", "o", "n", " ", "c", "o", "m", "p", "l", "e", "t", "e", "d", " ", "s", "u", "c", "c", "e", "s", "s", "f", "u", "l", "l", "y">>
SHelloWorld == <<"h", "e", "l", "l", "o", " ", "w", "o", "r", "l", "d">>

Field(key, json) == <<DumpsStr(key) \o <<":", " ">> \o json>>

RECURSIVE JoinFields(_)
JoinFields(fs) ==
    IF fs = <<>> THEN <<>>
    ELSE IF Len(fs) = 1 THEN fs[1]
    ELSE fs[1] \o <<",", " ">> \o JoinFields(Tail(fs))

\* json.dumps of a dict whose values are already rendered
Envelope(fs) == Encode(<<"{">> \o JoinFields(fs) \o <<"}">>)

StatusFields ==
    { <<>>, Field(KStatus, DumpsStr(SOk)), Field(KStatus, DumpsStr(KError)) }
OutputFields ==
    { <<>>, Field(KOutput, DumpsStr(<<>>)), Field(KOutput, DumpsStr(<<"X">>)),
      Field(KOutput, DumpsStr(<<"{", "}">>)), Field(KOutput, <<"n", "u", "l", "l">>) }
ErrorFields ==
    { <<>>, Field(KError, DumpsStr(SBoom)) }

EnvelopeReplies ==
    { Envelope(st \o out \o err) : st \in StatusFields, out \in OutputFields, err \in ErrorFields }

OtherReplies ==
    { Encode(SHelloWorld),
      <<" ", "h", "i", "\n">>,
      <<"\n", " ", "\t">>,
      <<"\f">>,
      <<"n", "u", "l", "l">>,
      <<"[", "1", "]">>,
      <<"[", "]">>,
      <<"{", "}">>,
      <<"{", " ", "}", " ">>,
      <<"\"", "X", "\"">>,
      <<"h", ByteC3, ByteA9>>,
      <<"h", ByteC3>>,
      <<"{", "\"", "s", "t", "a", "t", "u", "s", "\"", ":">>,
      <<" ">> \o Envelope(Field(KStatus, DumpsStr(SOk)) \o Field(KOutput, DumpsStr(<<"X">>))) \o <<"\n">>,
      Envelope(Field(KStatus, DumpsStr(SOk)) \o Field(KOutput, <<"0">>)),
      Envelope(Field(KStatus, DumpsStr(SOk)) \o Field(KOutput, DumpsStr(<<EAcute, "\n">>))),
      Envelope(Field(KStatus, <<"n", "u", "l", "l">>) \o Field(KError, <<"n", "u", "l", "l">>)),
      Envelope(Field(KStatus, DumpsStr(KError)) \o Field(KStatus, DumpsStr(SOk))) }

ShortBytes == {"\"", "1", " ", ByteC3, ByteA9}

RECURSIVE SeqsUpTo(_, _)
SeqsUpTo(S, n) ==
    IF n = 0 THEN { <<>> }
    ELSE LET shorter == SeqsUpTo(S, n - 1)
         IN  shorter \cup { Append(s, x) : s \in shorter, x \in S }

Replies == EnvelopeReplies \cup OtherReplies \cup SeqsUpTo(ShortBytes, MaxShortReply)

PayloadChars == {"\n", EAcute}
Payloads ==
    SeqsUpTo(PayloadChars, MaxPayloadLen)
        \cup { <<"a", "\n", "\n", "\n">>, <<"a", "\n", "b">>, <<EAcute, "\n", " ">> }

(***************************************************************************)
(* The unwrapping of the reply: DOF._exec after the receive loop.           *)
(***************************************************************************)
NoOutcome == [kind |-> "none", val |-> PyNone, exc |-> "", msg |-> <<>>]
Return(v) == [kind |-> "return", val |-> v, exc |-> "", msg |-> <<>>]
Raise(exc, msg) == [kind |-> "raise", val |-> PyNone, exc |-> exc, msg |-> msg]

\* if not raw_response.strip()
IsEmptyResponseNever(raw) == FALSE
IsEmptyResponse(raw) == Strip(raw) = <<>>

\* return json.dumps({"status": "success", "message": "Operation completed (no output)"})
EmptyResult == Return(PyStr(SuccessEnvelope(SNoOutput)))

\* except json.JSONDecodeError: return json.dumps({"status": "success", "message": raw_response})
DecodeFallbackStripped(raw) == Return(PyStr(SuccessEnvelope(Strip(raw))))
DecodeFallback(raw) == Return(PyStr(SuccessEnvelope(raw)))

\* raise RuntimeError(f"Isaac Sim error: {error_msg}"); no except clause of the call catches it
StatusErrorSwallowed(response, raw) == DecodeFallback(raw)
StatusError(response, raw) ==
    Raise("RuntimeError",
          SIsaacSimError \o StrOf(DictGet(response.items, KError, PyStr(SUnknownError))))

\* if output: return output
OutputResultWrapped(output) == Return(PyStr(SuccessEnvelope(StrOf(output))))
OutputResult(output) == Return(output)

\* else: return json.dumps({"status": "success", "message": "Operation completed successfully"})
NoOutputResultVerbatim(output) == Return(output)
NoOutputResult(output) == Return(PyStr(SuccessEnvelope(SCompleted)))

\* the body of the try block, once json.loads has returned response
EnvelopeResult(response, raw) ==
    IF response.k # "dict"
    THEN Raise("AttributeError", <<>>)
    ELSE IF ~IsStr(DictGet(response.items, KStatus, PyNone), SOk)
    THEN StatusError(response, raw)
    ELSE LET output == DictGet(response.items, KOutput, PyStr(<<>>))
         IN  IF Truthy(output) THEN OutputResult(output) ELSE NoOutputResult(output)

\* from data.decode("utf-8") to the end of _exec; parsed tells whether json.loads was called
ExecResult(bytes) ==
    LET decoded == Decode(bytes)
        raw == decoded.s
        loaded == Loads(raw)
    IN  IF ~decoded.ok
        THEN [outcome |-> Raise("UnicodeDecodeError", <<>>), parsed |-> FALSE]
        ELSE IF IsEmptyResponse(raw)
        THEN [outcome |-> EmptyResult, parsed |-> FALSE]
        ELSE IF ~loaded.ok
        THEN [outcome |-> DecodeFallback(raw), parsed |-> TRUE]
        ELSE [outcome |-> EnvelopeResult(loaded.v, raw), parsed |-> TRUE]

(***************************************************************************)
(* State.                                                                   *)
(***************************************************************************)
VARIABLES
    pc,        \* position of the caller in _exec
    calls,     \* number of _exec calls started
    payload,   \* the argument src as passed by the caller
    src,       \* the local src after normalization
    conns,     \* every connection ever opened: [owner, open, users]
    sock,      \* the connection of the running call, 0 when there is none
    sent,      \* bytes written to the connection
    wrShut,    \* the write side has been shut down
    peer,      \* "none", "listening", "replying" or "closed"
    reply,     \* the bytes the peer replies with
    peerPos,   \* how many bytes of reply the peer has written
    data,      \* the bytearray accumulated by the receive loop
    eof,       \* a zero-length read has been observed
    parsed,    \* json.loads has been called on the reply
    outcome,   \* what the call returned or raised
    attempts,  \* connection attempts made by the running call
    tool,      \* the command handle_call_tool is handling
    toolOut,   \* what handle_call_tool returned
    cmds       \* number of commands handled or in hand

vars == <<pc, calls, payload, src, conns, sock, sent, wrShut, peer, reply, peerPos,
          data, eof, parsed, outcome, attempts, tool, toolOut, cmds>>

callVars == <<payload, src, calls>>
peerVars == <<peer, reply, peerPos>>
toolVars == <<tool, toolOut, cmds>>

\* no command in hand, nothing returned
NoTool == [name |-> <<>>, robot_name |-> PyNone, positions |-> PyNone, velocities |-> PyNone]
NoToolOut == [kind |-> "none", text |-> <<>>, exc |-> "", msg |-> <<>>]

Min(a, b) == IF a < b THEN a ELSE b

Init ==
    /\ pc = "idle"
    /\ calls = 0
    /\ payload = <<>>
    /\ src = <<>>
    /\ conns = <<>>
    /\ sock = 0
    /\ sent = <<>>
    /\ wrShut = FALSE
    /\ peer = "none"
    /\ reply = <<>>
    /\ peerPos = 0
    /\ data = <<>>
    /\ eof = FALSE
    /\ parsed = FALSE
    /\ outcome = NoOutcome
    /\ attempts = 0
    /\ tool = NoTool
    /\ toolOut = NoToolOut
    /\ cmds = 0

(***************************************************************************)
(* The caller: DOF._exec.                                                   *)
(***************************************************************************)
\* the caller enters _exec(p): src = src.rstrip("\n") + "\n"
StartCall(p) ==
    /\ pc = "idle"
    /\ calls < MaxCalls
    /\ calls' = calls + 1
    /\ payload' = p
    /\ src' = Normalize(p)
    /\ pc' = "connect"
    /\ UNCHANGED <<conns, sock, sent, wrShut, peerVars, data, eof, parsed, outcome>>
    /\ attempts' = 0
    /\ UNCHANGED toolVars

\* socket.create_connection succeeds: a new socket
Connect ==
    /\ pc = "connect"
    /\ conns' = Append(conns, [owner |-> calls, open |-> TRUE, users |-> {calls}])
    /\ sock' = Len(conns) + 1
    /\ peer' = "listening"
    /\ pc' = "send"
    /\ UNCHANGED <<callVars, sent, wrShut, reply, peerPos, data, eof, parsed, outcome>>
    /\ attempts' = attempts + 1
    /\ UNCHANGED toolVars

\* socket.create_connection raises: the peer is unreachable
ConnectFailRetry ==
    /\ pc = "connect"
    /\ attempts' = attempts + 1
    /\ IF attempts < 2
       THEN /\ pc' = "connect"
            /\ UNCHANGED outcome
       ELSE /\ pc' = "done"
            /\ outcome' = Raise("OSError", <<>>)
    /\ UNCHANGED <<callVars, conns, sock, sent, wrShut, peerVars, data, eof, parsed, toolVars>>

ConnectFail ==
    /\ pc = "connect"
    /\ outcome' = Raise("OSError", <<>>)
    /\ pc' = "done"
    /\ UNCHANGED <<callVars, conns, sock, sent, wrShut, peerVars, data, eof, parsed>>
    /\ attempts' = attempts + 1
    /\ UNCHANGED toolVars

\* sock.sendall(src.encode("utf-8")): the bytes leave in one or more pieces
SendAll(k) ==
    /\ pc = "send"
    /\ k \in 1..(Len(Encode(src)) - Len(sent))
    /\ sent' = sent \o SubSeq(Encode(src), Len(sent) + 1, Len(sent) + k)
    /\ pc' = IF Len(sent') = Len(Encode(src)) THEN "shutdown" ELSE "send"
    /\ UNCHANGED <<callVars, conns, sock, wrShut, peerVars, data, eof, parsed, outcome>>
    /\ UNCHANGED <<toolVars, attempts>>

\* sock.shutdown(socket.SHUT_WR)
Shutdown ==
    /\ pc = "shutdown"
    /\ wrShut' = TRUE
    /\ pc' = "recv"
    /\ UNCHANGED <<callVars, conns, sock, sent, peerVars, data, eof, parsed, outcome>>
    /\ UNCHANGED <<toolVars, attempts>>

\* while chunk := sock.recv(4096): data.extend(chunk)
\* recv returns the bytes that have arrived, at most RecvBufSize of them
RecvEarly ==
    /\ pc \in {"send", "shutdown", "recv"}
    /\ peerPos > Len(data)
    /\ data' = data \o SubSeq(reply, Len(data) + 1,
                               Len(data) + Min(peerPos - Len(data), RecvBufSize))
    /\ UNCHANGED <<pc, callVars, conns, sock, sent, wrShut, peerVars, eof, parsed, outcome>>
    /\ UNCHANGED <<toolVars, attempts>>

Recv ==
    /\ pc = "recv"
    /\ peerPos > Len(data)
    /\ data' = data \o SubSeq(reply, Len(data) + 1,
                               Len(data) + Min(peerPos - Len(data), RecvBufSize))
    /\ UNCHANGED <<pc, callVars, conns, sock, sent, wrShut, peerVars, eof, parsed, outcome>>
    /\ UNCHANGED <<toolVars, attempts>>

\* sock.recv(4096) returns b"": the peer has closed and every byte was read
RecvEOFTimeout ==
    /\ pc = "recv"
    /\ peerPos = Len(data)
    /\ eof' = TRUE
    /\ pc' = "unwrap"
    /\ UNCHANGED <<callVars, conns, sock, sent, wrShut, peerVars, data, parsed, outcome>>
    /\ UNCHANGED <<toolVars, attempts>>

RecvEOF ==
    /\ pc = "recv"
    /\ peer = "closed"
    /\ peerPos = Len(data)
    /\ eof' = TRUE
    /\ pc' = "unwrap"
    /\ UNCHANGED <<callVars, conns, sock, sent, wrShut, peerVars, data, parsed, outcome>>
    /\ UNCHANGED <<toolVars, attempts>>

\* the with statement's exit: the socket is closed however the block is left
SockExitLeak(raised) == IF raised THEN conns ELSE [conns EXCEPT ![sock].open = FALSE]
SockExit(raised) == [conns EXCEPT ![sock].open = FALSE]

\* decode, unwrap and leave the with block by return or raise
Unwrap ==
    /\ pc = "unwrap"
    /\ outcome' = ExecResult(data).outcome
    /\ parsed' = ExecResult(data).parsed
    /\ conns' = SockExit(outcome'.kind = "raise")
    /\ sock' = 0
    /\ pc' = "done"
    /\ UNCHANGED <<callVars, sent, wrShut, peerVars, data, eof>>
    /\ UNCHANGED <<toolVars, attempts>>

\* sendall, shutdown or recv raises OSError: the connection was reset mid-exchange;
\* the exception unwinds the call, whose locals and connection are gone
TransportError ==
    /\ pc \in {"send", "shutdown", "recv"}
    /\ outcome' = Raise("OSError", <<>>)
    /\ conns' = SockExit(TRUE)
    /\ sock' = 0
    /\ pc' = "done"
    /\ sent' = <<>>
    /\ wrShut' = FALSE
    /\ peer' = "none"
    /\ reply' = <<>>
    /\ peerPos' = 0
    /\ data' = <<>>
    /\ UNCHANGED <<callVars, eof, parsed>>
    /\ UNCHANGED <<toolVars, attempts>>

\* the caller has the result; the locals of the call are gone
Finish ==
    /\ pc = "done"
    /\ pc' = "idle"
    /\ payload' = <<>>
    /\ src' = <<>>
    /\ sent' = <<>>
    /\ wrShut' = FALSE
    /\ peer' = "none"
    /\ reply' = <<>>
    /\ peerPos' = 0
    /\ data' = <<>>
    /\ eof' = FALSE
    /\ parsed' = FALSE
    /\ outcome' = NoOutcome
    /\ UNCHANGED <<calls, conns, sock>>
    /\ attempts' = 0
    /\ UNCHANGED toolVars

(***************************************************************************)
(* The peer.                                                                *)
(***************************************************************************)
InExchange == pc \in {"send", "shutdown", "recv"}

\* the peer decides what it replies
PeerReply(r) ==
    /\ InExchange
    /\ peer = "listening"
    /\ peer' = "replying"
    /\ reply' = r
    /\ UNCHANGED <<pc, callVars, conns, sock, sent, wrShut, peerPos, data, eof, parsed, outcome>>
    /\ UNCHANGED <<toolVars, attempts>>

\* the next segment of the reply arrives, at most two segments ahead of the reader
PeerWrite ==
    /\ InExchange
    /\ peer = "replying"
    /\ peerPos < Len(reply)
    /\ peerPos - Len(data) <= MaxSegment
    /\ peerPos' = Min(peerPos + MaxSegment, Len(reply))
    /\ UNCHANGED <<pc, callVars, conns, sock, sent, wrShut, peer, reply, data, eof, parsed, outcome>>
    /\ UNCHANGED <<toolVars, attempts>>

\* the peer closes the connection after its last byte
PeerClose ==
    /\ InExchange
    /\ peer = "replying"
    /\ peerPos = Len(reply)
    /\ peer' = "closed"
    /\ UNCHANGED <<pc, callVars, conns, sock, sent, wrShut, reply, peerPos, data, eof, parsed, outcome>>
    /\ UNCHANGED <<toolVars, attempts>>

Next ==
    \/ \E p \in Payloads : StartCall(p)
    \/ Connect
    \/ ConnectFail
    \/ \E k \in 1..(2 * MaxPayloadLen + 1) : SendAll(k)
    \/ Shutdown
    \/ Recv
    \/ RecvEOF
    \/ Unwrap
    \/ TransportError
    \/ Finish
    \/ \E r \in Replies : PeerReply(r)
    \/ PeerWrite
    \/ PeerClose

Spec == Init /\ [][Next]_vars

\* The call is a single thread of straight-line blocking calls: each of them returns
\* as soon as it can, so a step of the call that stays possible is taken.  Nothing
\* obliges the peer to write or to close.
ClientStep ==
    \/ \E k \in 1..(2 * MaxPayloadLen + 1) : SendAll(k)
    \/ Shutdown
    \/ Recv
    \/ RecvEOF

\* Unwrap is the only step that leaves pc = "unwrap", and it is always possible there
\* (decoding and unwrapping are total), so its fairness is stated on pc alone.
ClientFairness ==
    /\ WF_vars(ClientStep)
    /\ WF_pc(pc = "unwrap" /\ pc' = "done")

\* The exchanges followed for progress: an empty and a multi-line payload; no reply
\* bytes, a reply of several segments, a reply that is not JSON and one that is not
\* UTF-8.
LivePayloads == {<<>>, <<"a", "\n", "b">>}
LiveReplies == {<<>>, Envelope(Field(KStatus, DumpsStr(SOk)) \o Field(KOutput, DumpsStr(<<"X">>))),
                Encode(SHelloWorld), <<"h", ByteC3>>}

LiveNext ==
    \/ \E p \in LivePayloads : StartCall(p)
    \/ Connect
    \/ ConnectFail
    \/ ClientStep
    \/ Unwrap
    \/ TransportError
    \/ Finish
    \/ \E r \in LiveReplies : PeerReply(r)
    \/ PeerWrite
    \/ PeerClose

LiveSpec == Init /\ [][LiveNext]_vars /\ ClientFairness

(***************************************************************************)
(* Properties.                                                              *)
(***************************************************************************)
\* the reply as text, and as the value json.loads makes of it
Raw == Decode(data).s
Response == Loads(Raw).v

\* the call has ended after reading the peer's whole reply
Completed == pc = "done" /\ eof

\* the reply is text that parses as a JSON object
IsEnvelope == Decode(data).ok /\ Loads(Raw).ok /\ Response.k = "dict"
StatusIsOk == IsStr(DictGet(Response.items, KStatus, PyNone), SOk)
HasKey(pairs, key) == \E i \in 1..Len(pairs) : pairs[i].key = key
Contains(s, x) == \E i \in 0..(Len(s) - Len(x)) : SubSeq(s, i + 1, i + Len(x)) = x
EndsInOneNewline(s) ==
    /\ s # <<>>
    /\ s[Len(s)] = "\n"
    /\ (Len(s) > 1 => s[Len(s) - 1] # "\n")

\* the result is a synthesized success envelope that carries message
IsSuccessEnvelope(v, message) ==
    /\ v.k = "str"
    /\ v.s # <<>>
    /\ Loads(v.s).ok
    /\ Loads(v.s).v.k = "dict"
    /\ IsStr(DictGet(Loads(v.s).v.items, KStatus, PyNone), SSuccess)
    /\ IsStr(DictGet(Loads(v.s).v.items, KMessage, PyNone), message)

OkReply(output) == Envelope(Field(KStatus, DumpsStr(SOk)) \o Field(KOutput, DumpsStr(output)))

(***************************************************************************)
(* robot_configs.py: the registry of robots and its case-insensitive       *)
(* lookup.                                                                  *)
(***************************************************************************)
\* the keys of ROBOT_CONFIGS, in the order of the dict
RobotKeys ==
    <<<<"f", "r", "a", "n", "k", "a">>,
      <<"u", "r", "5">>,
      <<"k", "i", "n", "o", "v", "a">>,
      <<"f", "l", "e", "x", "i", "v">>,
      <<"c", "a", "r", "t", "e", "r">>,
      <<"j", "e", "t", "b", "o", "t">>,
      <<"d", "i", "g", "i", "t">>>>

\* name and prim_path of each entry; a prim_path is one symbol of a script
RobotNames ==
    <<<<"F", "r", "a", "n", "k", "a", " ", "E", "m", "i", "k", "a", " ", "P", "a", "n", "d", "a">>,
      <<"U", "n", "i", "v", "e", "r", "s", "a", "l", " ", "R", "o", "b", "o", "t", "s", " ", "U", "R", "5">>,
      <<"K", "i", "n", "o", "v", "a", " ", "G", "e", "n", "3">>,
      <<"F", "l", "e", "x", "i", "v", " ", "R", "i", "z", "o", "n", " ", "4">>,
      <<"N", "V", "I", "D", "I", "A", " ", "C", "a", "r", "t", "e", "r">>,
      <<"N", "V", "I", "D", "I", "A", " ", "J", "e", "t", "B", "o", "t">>,
      <<"A", "g", "i", "l", "i", "t", "y", " ", "R", "o", "b", "o", "t", "i", "c", "s", " ", "D", "i", "g", "i", "t">>>>
RobotPrimPaths ==
    <<"/World/Franka", "/World/UR5", "/World/Kinova", "/World/FlexivRizon4", "/World/Carter", "/World/JetBot", "/World/Digit">>

InRegistry(key) == \E i \in 1..Len(RobotKeys) : RobotKeys[i] = key
KeyIndex(key) == CHOOSE i \in 1..Len(RobotKeys) : RobotKeys[i] = key
ROBOT_CONFIGS(key) == [name |-> RobotNames[KeyIndex(key)], prim_path |-> RobotPrimPaths[KeyIndex(key)]]

\* str.lower()
UpperLetters == <<"A", "B", "C", "D", "E", "F", "G", "H", "I", "J", "K", "L", "M",
                  "N", "O", "P", "Q", "R", "S", "T", "U", "V", "W", "X", "Y", "Z">>
LowerLetters == <<"a", "b", "c", "d", "e", "f", "g", "h", "i", "j", "k", "l", "m",
                  "n", "o", "p", "q", "r", "s", "t", "u", "v", "w", "x", "y", "z">>
LowerChar(c) ==
    IF \E i \in 1..Len(UpperLetters) : UpperLetters[i] = c
    THEN LowerLetters[CHOOSE i \in 1..Len(UpperLetters) : UpperLetters[i] = c]
    ELSE c
Lower(s) == [i \in 1..Len(s) |-> LowerChar(s[i])]

\* repr() of a str: single quotes unless the text holds a single quote and no double
\* quote; backslash, newline and the chosen quote are escaped
ReprQuote(s) ==
    IF (\E i \in 1..Len(s) : s[i] = "'") /\ ~(\E i \in 1..Len(s) : s[i] = "\"")
    THEN "\"" ELSE "'"
ReprChar(c, q) ==
    IF c = "\\" THEN <<"\\", "\\">>
    ELSE IF c = "\n" THEN <<"\\", "n">>
    ELSE IF c = "\t" THEN <<"\\", "t">>
    ELSE IF c = q THEN <<"\\", c>>
    ELSE <<c>>
RECURSIVE ReprBody(_, _)
ReprBody(s, q) ==
    IF s = <<>> THEN <<>>
    ELSE IF Len(s) = 1 THEN ReprChar(s[1], q)
    ELSE ReprBody(SubSeq(s, 1, Len(s) \div 2), q) \o ReprBody(SubSeq(s, Len(s) \div 2 + 1, Len(s)), q)
PyRepr(s) == <<ReprQuote(s)>> \o ReprBody(s, ReprQuote(s)) \o <<ReprQuote(s)>>

\* repr() of a list of str
RECURSIVE ReprItems(_)
ReprItems(keys) ==
    IF keys = <<>> THEN <<>>
    ELSE IF Len(keys) = 1 THEN PyRepr(keys[1])
    ELSE PyRepr(keys[1]) \o <<",", " ">> \o ReprItems(Tail(keys))
ReprList(keys) == <<"[">> \o ReprItems(keys) \o <<"]">>

SRobotQuote == <<"R", "o", "b", "o", "t", " ", "'">>
SNotFound ==
    <<"'", " ", "n", "o", "t", " ", "f", "o", "u", "n", "d", ".", " ", "A", "v", "a", "i", "l",
      "a", "b", "l", "e", " ", "r", "o", "b", "o", "t", "s", ":", " ">>

\* get_robot_config: the entry of the lowered name, or the exception raised
NotFoundMessage(lowered) == SRobotQuote \o lowered \o SNotFound \o ReprList(RobotKeys)

get_robot_config_default(robot_name) ==
    IF robot_name.k # "str"
    THEN [ok |-> FALSE, exc |-> "AttributeError", msg |-> <<OtherChar>>, key |-> <<>>]
    ELSE [ok |-> TRUE, exc |-> "", msg |-> <<>>,
          key |-> IF InRegistry(Lower(robot_name.s)) THEN Lower(robot_name.s) ELSE RobotKeys[1]]

get_robot_config(robot_name) ==
    IF robot_name.k # "str"
    THEN [ok |-> FALSE, exc |-> "AttributeError", msg |-> <<OtherChar>>, key |-> <<>>]
    ELSE IF ~InRegistry(Lower(robot_name.s))
    THEN [ok |-> FALSE, exc |-> "KeyError", msg |-> NotFoundMessage(Lower(robot_name.s)), key |-> <<>>]
    ELSE [ok |-> TRUE, exc |-> "", msg |-> <<>>, key |-> Lower(robot_name.s)]


(***************************************************************************)
(* server.py: handle_call_tool.                                             *)
(***************************************************************************)
TAddGround == <<"a", "d", "d", "_", "g", "r", "o", "u", "n", "d">>
TAddBall == <<"a", "d", "d", "_", "b", "a", "l", "l">>
TAddRobot == <<"a", "d", "d", "_", "r", "o", "b", "o", "t">>
TListRobots == <<"l", "i", "s", "t", "_", "r", "o", "b", "o", "t", "s">>
TSetPositions ==
    <<"s", "e", "t", "_", "r", "o", "b", "o", "t", "_", "p", "o", "s", "i", "t", "i", "o", "n",
      "s">>
TSetVelocities ==
    <<"s", "e", "t", "_", "r", "o", "b", "o", "t", "_", "v", "e", "l", "o", "c", "i", "t", "i",
      "e", "s">>
TGetState == <<"g", "e", "t", "_", "r", "o", "b", "o", "t", "_", "s", "t", "a", "t", "e">>
TUnknown == <<"r", "e", "s", "e", "t", "_", "w", "o", "r", "l", "d">>

SGroundAdded ==
    <<"G", "r", "o", "u", "n", "d", " ", "a", "d", "d", "e", "d", " ", "t", "o", " ", "D", "O",
      "F", " ", "s", "i", "m", "u", "l", "a", "t", "i", "o", "n">>
SBallAdded ==
    <<"B", "a", "l", "l", " ", "a", "d", "d", "e", "d", " ", "t", "o", " ", "D", "O", "F", " ",
      "s", "i", "m", "u", "l", "a", "t", "i", "o", "n">>
SAdded ==
    <<" ", "a", "d", "d", "e", "d", " ", "t", "o", " ", "D", "O", "F", " ", "s", "i", "m", "u",
      "l", "a", "t", "i", "o", "n">>
SNameRequired ==
    <<"R", "o", "b", "o", "t", " ", "n", "a", "m", "e", " ", "m", "u", "s", "t", " ", "b", "e",
      " ", "s", "p", "e", "c", "i", "f", "i", "e", "d">>
SPositionsRequired ==
    <<"R", "o", "b", "o", "t", " ", "n", "a", "m", "e", " ", "a", "n", "d", " ", "p", "o", "s",
      "i", "t", "i", "o", "n", "s", " ", "m", "u", "s", "t", " ", "b", "e", " ", "s", "p", "e",
      "c", "i", "f", "i", "e", "d">>
SVelocitiesRequired ==
    <<"R", "o", "b", "o", "t", " ", "n", "a", "m", "e", " ", "a", "n", "d", " ", "v", "e", "l",
      "o", "c", "i", "t", "i", "e", "s", " ", "m", "u", "s", "t", " ", "b", "e", " ", "s", "p",
      "e", "c", "i", "f", "i", "e", "d">>
SUnknownTool == <<"U", "n", "k", "n", "o", "w", "n", " ", "t", "o", "o", "l", ":", " ">>
SErrorPrefix == <<"E", "r", "r", "o", "r", ":", " ">>
SPositionsSet ==
    <<"P", "o", "s", "i", "t", "i", "o", "n", "s", " ", "s", "e", "t", " ", "f", "o", "r", " ">>
SVelocitiesSet ==
    <<"V", "e", "l", "o", "c", "i", "t", "i", "e", "s", " ", "s", "e", "t", " ", "f", "o", "r",
      " ">>
SRobotsHeader ==
    <<"R", "o", "b", "o", "t", "s", " ", "i", "n", " ", "s", "i", "m", "u", "l", "a", "t", "i",
      "o", "n", ":", "\n">>
SNoRobots ==
    <<"N", "o", " ", "r", "o", "b", "o", "t", "s", " ", "f", "o", "u", "n", "d", " ", "i", "n",
      " ", "s", "i", "m", "u", "l", "a", "t", "i", "o", "n">>
SListFailed ==
    <<"U", "n", "k", "n", "o", "w", "n", " ", "e", "r", "r", "o", "r", " ", "l", "i", "s", "t",
      "i", "n", "g", " ", "r", "o", "b", "o", "t", "s">>
SPositionsFailed ==
    <<"U", "n", "k", "n", "o", "w", "n", " ", "e", "r", "r", "o", "r", " ", "s", "e", "t", "t",
      "i", "n", "g", " ", "p", "o", "s", "i", "t", "i", "o", "n", "s">>
SVelocitiesFailed ==
    <<"U", "n", "k", "n", "o", "w", "n", " ", "e", "r", "r", "o", "r", " ", "s", "e", "t", "t",
      "i", "n", "g", " ", "v", "e", "l", "o", "c", "i", "t", "i", "e", "s">>
SStateFailed ==
    <<"U", "n", "k", "n", "o", "w", "n", " ", "e", "r", "r", "o", "r", " ", "g", "e", "t", "t",
      "i", "n", "g", " ", "s", "t", "a", "t", "e">>
SNoResponse ==
    <<"N", "o", " ", "r", "e", "s", "p", "o", "n", "s", "e", " ", "r", "e", "c", "e", "i", "v",
      "e", "d", " ", "f", "r", "o", "m", " ", "I", "s", "a", "a", "c", " ", "S", "i", "m">>
SDecodeFailed ==
    <<"F", "a", "i", "l", "e", "d", " ", "t", "o", " ", "d", "e", "c", "o", "d", "e", " ", "r",
      "e", "s", "p", "o", "n", "s", "e", " ", "f", "r", "o", "m", " ", "I", "s", "a", "a", "c",
      " ", "S", "i", "m">>
SRobot == <<"R", "o", "b", "o", "t", " ">>
SState == <<" ", "s", "t", "a", "t", "e", ":", "\n">>
SPositionsLabel == <<"P", "o", "s", "i", "t", "i", "o", "n", "s", ":", " ">>
SVelocitiesLabel == <<"\n", "V", "e", "l", "o", "c", "i", "t", "i", "e", "s", ":", " ">>
KData == <<"d", "a", "t", "a">>
KPositions == <<"p", "o", "s", "i", "t", "i", "o", "n", "s">>
KVelocities == <<"v", "e", "l", "o", "c", "i", "t", "i", "e", "s">>
SDone == <<"d", "o", "n", "e">>

\* arguments.get(...) of each command; a command without arguments has None everywhere
Args(name, robot_name, positions, velocities) ==
    [name |-> name, robot_name |-> robot_name, positions |-> positions, velocities |-> velocities]

JointValues == PyList(<<PyNum(<<"0">>)>>)
RobotNameArgs ==
    {PyNone, PyStr(<<>>), PyStr(RobotKeys[1]), PyStr(<<"F", "r", "a", "n", "k", "a">>),
     PyStr(RobotKeys[2]), PyStr(<<"r", "2", "d", "2">>), PyNum(<<"5">>)}

ToolCalls ==
    {Args(n, PyNone, PyNone, PyNone) : n \in {TAddGround, TAddBall, TListRobots, TUnknown}}
    \cup {Args(TAddRobot, r, PyNone, PyNone) : r \in RobotNameArgs}
    \cup {Args(TGetState, r, PyNone, PyNone) :
            r \in {PyNone, PyStr(RobotKeys[1]), PyStr(<<"r", "2", "d", "2">>)}}
    \cup {Args(TSetPositions, r, p, PyNone) :
            r \in {PyNone, PyStr(RobotKeys[1]), PyStr(<<"r", "2", "d", "2">>)},
            p \in {PyNone, JointValues}}
    \cup {Args(TSetVelocities, r, PyNone, v) :
            r \in {PyStr(<<"U", "R", "5">>), PyStr(<<"r", "2", "d", "2">>)},
            v \in {PyNone, JointValues}}

\* a generated script: textwrap.dedent of a block that opens and ends with a newline;
\* its body is one symbol for the operation and, for a robot, the prim_path
Script(body) == <<"\n">> \o body \o <<"\n">>
NoScript == <<>>
PreRaise(exc, msg) == [kind |-> "raise", exc |-> exc, msg |-> msg, script |-> NoScript]
PreScript(body) == [kind |-> "script", exc |-> "", msg |-> <<>>, script |-> Script(body)]

\* DOF.add_robot, set_joint_positions, set_joint_velocities, get_joint_states up to the
\* call of _exec: the lookup comes first, the script is built from the entry
RobotScript(operation, robot_name) ==
    IF get_robot_config(robot_name).ok
    THEN PreScript(<<operation, ROBOT_CONFIGS(get_robot_config(robot_name).key).prim_path>>)
    ELSE PreRaise(get_robot_config(robot_name).exc, get_robot_config(robot_name).msg)

\* handle_call_tool up to the call of _exec
PreExchange(t) ==
    CASE t.name = TAddGround -> PreScript(<<"add_ground">>)
      [] t.name = TAddBall -> PreScript(<<"add_ball">>)
      [] t.name = TListRobots -> PreScript(<<"list_robots">>)
      [] t.name = TAddRobot ->
            IF ~Truthy(t.robot_name) THEN PreRaise("ValueError", SNameRequired)
            ELSE RobotScript("add_robot", t.robot_name)
      [] t.name = TSetPositions ->
            IF ~Truthy(t.robot_name) \/ t.positions = PyNone
            THEN PreRaise("ValueError", SPositionsRequired)
            ELSE RobotScript("set_joint_positions", t.robot_name)
      [] t.name = TSetVelocities ->
            IF ~Truthy(t.robot_name) \/ t.velocities = PyNone
            THEN PreRaise("ValueError", SVelocitiesRequired)
            ELSE RobotScript("set_joint_velocities", t.robot_name)
      [] t.name = TGetState ->
            IF ~Truthy(t.robot_name) THEN PreRaise("ValueError", SNameRequired)
            ELSE RobotScript("get_joint_states", t.robot_name)
      [] OTHER -> PreRaise("ValueError", SUnknownTool \o t.name)

\* types.TextContent(type="text", text=...): the text must be a str
TextContent(v) == IF v.k = "str" THEN Return(v) ELSE Raise("ValidationError", <<OtherChar>>)

\* response[key]
DictHas(pairs, key) == \E i \in 1..Len(pairs) : pairs[i].key = key
Subscript(v, key) ==
    IF v.k # "dict" THEN Raise("TypeError", <<OtherChar>>)
    ELSE IF ~DictHas(v.items, key) THEN Raise("KeyError", key)
    ELSE Return(DictGet(v.items, key, PyNone))

\* "\n".join(robots)
RECURSIVE JoinLines(_)
JoinLines(lines) ==
    IF lines = <<>> THEN <<>>
    ELSE IF Len(lines) = 1 THEN lines[1]
    ELSE lines[1] \o <<"\n">> \o JoinLines(Tail(lines))

JoinRobots(robots) ==
    CASE robots.k = "str" -> Return(PyStr(SRobotsHeader \o JoinLines([i \in 1..Len(robots.s) |-> <<robots.s[i]>>])))
      [] robots.k = "dict" ->
            Return(PyStr(SRobotsHeader \o JoinLines([i \in 1..Len(robots.items) |-> robots.items[i].key])))
      [] robots.k = "list" ->
            IF \A i \in 1..Len(robots.items) : robots.items[i].k = "str"
            THEN Return(PyStr(SRobotsHeader \o JoinLines([i \in 1..Len(robots.items) |-> robots.items[i].s])))
            ELSE Raise("TypeError", <<OtherChar>>)
      [] OTHER -> Raise("TypeError", <<OtherChar>>)

\* if result and result.strip(), then json.loads(result): "parsed", "undecodable",
\* "empty", or "not-str" for the AttributeError of a result that is not a str
ResultKind(result, decodes) ==
    IF ~Truthy(result) THEN "empty"
    ELSE IF result.k # "str" THEN "not-str"
    ELSE IF Strip(result.s) = <<>> THEN "empty"
    ELSE IF decodes THEN "parsed"
    ELSE "undecodable"

\* ROBOT_CONFIGS[robot_name]['name'] with the name as the command gave it
AddedText(robot_name) ==
    IF InRegistry(robot_name.s)
    THEN TextContent(PyStr(ROBOT_CONFIGS(robot_name.s).name \o SAdded))
    ELSE Raise("KeyError", robot_name.s)

\* the branch of a command that acts on response["status"]
OnStatus(response, success, failed) ==
    LET status == Subscript(response, KStatus)
    IN  IF status.kind = "raise" THEN status
        ELSE IF IsStr(status.val, SSuccess) THEN success
        ELSE Raise("ValueError", StrOf(DictGet(response.items, KMessage, PyStr(failed))))

MessageText(response) ==
    LET message == Subscript(response, KMessage)
    IN  IF message.kind = "raise" THEN message ELSE TextContent(message.val)

ListText(response) ==
    LET robots == DictGet(response.items, KData, PyNone)
    IN  IF DictHas(response.items, KData)
        THEN IF Truthy(robots) THEN JoinRobots(robots) ELSE TextContent(PyStr(SNoRobots))
        ELSE TextContent(DictGet(response.items, KMessage, PyStr(SNoRobots)))

StateText(response, robot_name) ==
    LET state == Subscript(response, KData)
        positions == Subscript(state.val, KPositions)
        velocities == Subscript(state.val, KVelocities)
    IN  IF state.kind = "raise" THEN state
        ELSE IF positions.kind = "raise" THEN positions
        ELSE IF velocities.kind = "raise" THEN velocities
        ELSE TextContent(PyStr(SRobot \o robot_name.s \o SState
                \o SPositionsLabel \o StrOf(positions.val)
                \o SVelocitiesLabel \o StrOf(velocities.val)))

\* the branch of one command for the kind of result it got
InterpretKind(t, kind, response) ==
    IF kind = "not-str" /\ t.name \notin {TAddGround, TAddBall}
    THEN Raise("AttributeError", <<OtherChar>>)
    ELSE CASE t.name = TAddGround -> TextContent(PyStr(SGroundAdded))
           [] t.name = TAddBall -> TextContent(PyStr(SBallAdded))
           [] t.name = TAddRobot -> AddedText(t.robot_name)
           [] t.name = TListRobots ->
                CASE kind = "empty" -> TextContent(PyStr(SNoRobots))
                  [] kind = "undecodable" -> Raise("ValueError", SDecodeFailed)
                  [] OTHER -> OnStatus(response, ListText(response), SListFailed)
           [] t.name = TSetPositions ->
                IF kind \in {"empty", "undecodable"}
                THEN TextContent(PyStr(SPositionsSet \o StrOf(t.robot_name)))
                ELSE OnStatus(response, MessageText(response), SPositionsFailed)
           [] t.name = TSetVelocities ->
                IF kind \in {"empty", "undecodable"}
                THEN TextContent(PyStr(SVelocitiesSet \o StrOf(t.robot_name)))
                ELSE OnStatus(response, MessageText(response), SVelocitiesFailed)
           [] t.name = TGetState ->
                CASE kind = "empty" -> Raise("ValueError", SNoResponse)
                  [] kind = "undecodable" -> Raise("ValueError", SDecodeFailed)
                  [] OTHER -> OnStatus(response, StateText(response, t.robot_name), SStateFailed)
           [] OTHER -> Raise("ValueError", SUnknownTool \o t.name)

\* the body of handle_call_tool after the DOF method returned `result`
Interpret(t, result) ==
    LET loaded == IF result.k = "str" THEN Loads(result.s) ELSE [ok |-> FALSE, v |-> PyNone]
    IN  InterpretKind(t, ResultKind(result, loaded.ok), loaded.v)

\* str(e): a KeyError shows the repr of its argument
ExcStr(exc, msg) == IF exc = "KeyError" THEN PyRepr(msg) ELSE msg

\* except Exception as e: return the text "Error: " + str(e)
ToolReturned(text) == [kind |-> "text", text |-> text, exc |-> "", msg |-> <<>>]
HandlerResultNarrow(exc, msg) ==
    IF exc = "ValueError"
    THEN [kind |-> "text", text |-> SErrorPrefix \o ExcStr(exc, msg), exc |-> exc, msg |-> msg]
    ELSE [kind |-> "escaped", text |-> <<>>, exc |-> exc, msg |-> msg]

HandlerResult(exc, msg) ==
    [kind |-> "text", text |-> SErrorPrefix \o ExcStr(exc, msg), exc |-> exc, msg |-> msg]

\* what handle_call_tool returns for the outcome of its body
Handled(body) ==
    IF body.kind = "raise" THEN HandlerResult(body.exc, body.msg)
    ELSE ToolReturned(body.val.s)

\* handle_call_tool is called: sim = DOF(), the arguments are read and the DOF method
\* runs up to its call of _exec, or the command fails before any exchange
CallTool(t) ==
    /\ pc = "idle"
    /\ cmds < MaxCommands
    /\ cmds' = cmds + 1
    /\ tool' = t
    /\ attempts' = 0
    /\ IF PreExchange(t).kind = "raise"
       THEN /\ toolOut' = HandlerResult(PreExchange(t).exc, PreExchange(t).msg)
            /\ pc' = "handled"
            /\ UNCHANGED callVars
       ELSE /\ toolOut' = NoToolOut
            /\ calls' = calls + 1
            /\ payload' = PreExchange(t).script
            /\ src' = Normalize(PreExchange(t).script)
            /\ pc' = "connect"
    /\ UNCHANGED <<conns, sock, sent, wrShut, peerVars, data, eof, parsed, outcome>>

\* sock.sendall(src.encode("utf-8")) as one step
SendScript ==
    /\ pc = "send"
    /\ SendAll(Len(Encode(src)))

\* _exec has returned or raised: the rest of handle_call_tool
ToolReturn ==
    /\ pc = "done"
    /\ toolOut' = IF outcome.kind = "raise"
                  THEN HandlerResult(outcome.exc, outcome.msg)
                  ELSE Handled(Interpret(tool, outcome.val))
    /\ pc' = "handled"
    /\ UNCHANGED <<callVars, conns, sock, sent, wrShut, peerVars, data, eof, parsed, outcome,
                   tool, cmds, attempts>>

\* the text has been returned: sim and the locals of the command are gone
NextCommand ==
    /\ pc = "handled"
    /\ pc' = "idle"
    /\ tool' = NoTool
    /\ toolOut' = NoToolOut
    /\ payload' = <<>>
    /\ src' = <<>>
    /\ sent' = <<>>
    /\ wrShut' = FALSE
    /\ peer' = "none"
    /\ reply' = <<>>
    /\ peerPos' = 0
    /\ data' = <<>>
    /\ eof' = FALSE
    /\ parsed' = FALSE
    /\ outcome' = NoOutcome
    /\ attempts' = 0
    /\ UNCHANGED <<calls, conns, sock, cmds>>

\* what the scripts print, as the peer captures it: a JSON object text
JSONText(fs) == <<"{">> \o JoinFields(fs) \o <<"}">>
DataState ==
    JSONText(Field(KPositions, <<"[", "1", "]">>) \o Field(KVelocities, <<"[", "0", "]">>))

ToolOutputs ==
    { JSONText(Field(KStatus, DumpsStr(SSuccess)) \o Field(KMessage, DumpsStr(SDone))) \o <<"\n">>,
      JSONText(Field(KStatus, DumpsStr(KError)) \o Field(KMessage, DumpsStr(SBoom))),
      JSONText(Field(KStatus, DumpsStr(SSuccess)) \o Field(KData, DataState)),
      JSONText(Field(KStatus, DumpsStr(SSuccess)) \o Field(KData, <<"[", "\"", "a", "\"", "]">>)),
      JSONText(Field(KStatus, DumpsStr(SSuccess))),
      JSONText(Field(KStatus, DumpsStr(SSuccess)) \o Field(KMessage, <<"5">>)),
      <<"[", "1", "]">>,
      <<"X">> }

ToolReplies ==
    { OkReply(o) : o \in ToolOutputs }
    \cup { <<>>,
           Envelope(Field(KStatus, DumpsStr(KError)) \o Field(KError, DumpsStr(SBoom))),
           Envelope(Field(KStatus, DumpsStr(SOk))),
           Envelope(Field(KStatus, DumpsStr(SOk)) \o Field(KOutput, <<"[", "1", "]">>)),
           Encode(SHelloWorld),
           Encode(<<"[", "1", "]">>),
           <<"h", ByteC3>> }

ToolNext ==
    \/ \E t \in ToolCalls : CallTool(t)
    \/ Connect
    \/ ConnectFail
    \/ SendScript
    \/ Shutdown
    \/ Recv
    \/ RecvEOF
    \/ Unwrap
    \/ TransportError
    \/ ToolReturn
    \/ NextCommand
    \/ \E r \in ToolReplies : PeerReply(r)
    \/ PeerWrite
    \/ PeerClose

ToolSpec == Init /\ [][ToolNext]_vars


\* C1: whenever _exec returns, the returned value is syntactically valid JSON text.
C1_ResultIsValidJSON ==
    (pc = "done" /\ outcome.kind = "return")
        => (outcome.val.k = "str" /\ Loads(outcome.val.s).ok)

\* C2: _exec raises only when the transport fails or the reply is an envelope whose
\* status is not "ok"; every other reply that was received whole yields a result.
C2_RaisesOnlyTwoWays ==
    (pc = "done" /\ outcome.kind = "raise")
        => IF eof THEN IsEnvelope /\ ~StatusIsOk ELSE outcome.exc = "OSError"

C4_EmptyOutputSynthesized ==
    (Completed /\ IsEnvelope /\ StatusIsOk
        /\ ~Truthy(DictGet(Response.items, KOutput, PyStr(<<>>))))
        => /\ outcome.kind = "return"
           /\ IsSuccessEnvelope(outcome.val, SCompleted)

C4_Witness ==
    /\ Completed
    /\ data = OkReply(<<>>)
    /\ outcome.kind = "return"
    /\ outcome.val.s # <<>>

\* C5: a reply that parses as a JSON object whose status is not "ok" makes _exec raise
\* a RuntimeError whose message contains the envelope's error text, or "Unknown error"
\* when the error field is absent; the decode fallback does not swallow it.
C5_NonOkRaises ==
    (Completed /\ IsEnvelope /\ ~StatusIsOk)
        => /\ outcome.kind = "raise"
           /\ outcome.exc = "RuntimeError"
           /\ ~HasKey(Response.items, KError) => Contains(outcome.msg, SUnknownError)
           /\ DictGet(Response.items, KError, PyNone).k = "str"
                  => Contains(outcome.msg, DictGet(Response.items, KError, PyNone).s)

C5_Witness ==
    /\ Completed
    /\ data = Envelope(Field(KStatus, DumpsStr(KError)) \o Field(KError, DumpsStr(SBoom)))
    /\ outcome.kind = "raise"
    /\ Contains(outcome.msg, SBoom)

\* C6 as claimed: every non-empty reply text that fails to parse as JSON, whitespace-only
\* replies included, is returned wrapped verbatim in a synthesized success envelope.
C6_FallbackWrapsVerbatim ==
    (Completed /\ Decode(data).ok /\ Raw # <<>> /\ ~Loads(Raw).ok)
        => /\ outcome.kind = "return"
           /\ IsSuccessEnvelope(outcome.val, Raw)

\* C6 as amended: every reply text that has a non-whitespace character and fails to
\* parse as JSON is returned wrapped verbatim, leading and trailing whitespace
\* included, in a synthesized success envelope.
C6_FallbackWrapsNonBlank ==
    (Completed /\ Decode(data).ok /\ Strip(Raw) # <<>> /\ ~Loads(Raw).ok)
        => /\ outcome.kind = "return"
           /\ IsSuccessEnvelope(outcome.val, Raw)

C6_Witness ==
    /\ Completed
    /\ data = <<" ", "h", "i", "\n">>
    /\ IsSuccessEnvelope(outcome.val, <<" ", "h", "i", "\n">>)

\* C7: when the peer closes having sent zero bytes, _exec returns a synthesized success
\* envelope without raising and without calling json.loads.
C7_ZeroBytesNoParse ==
    (Completed /\ data = <<>>)
        => /\ outcome.kind = "return"
           /\ IsSuccessEnvelope(outcome.val, SNoOutput)
           /\ ~parsed

C7_Witness ==
    /\ Completed
    /\ peer = "closed"
    /\ reply = <<>>
    /\ outcome.kind = "return"
    /\ ~parsed

\* C8: the text _exec transmits ends in exactly one newline whatever the payload's
\* trailing newlines, keeps the rest of the payload, and normalizing it again changes
\* nothing.
C8_OneTrailingNewline ==
    /\ pc # "idle" =>
        /\ EndsInOneNewline(src)
        /\ RStripNewlines(src) = RStripNewlines(payload)
        /\ Normalize(src) = src
    /\ wrShut =>
        /\ Decode(sent).ok
        /\ Decode(sent).s = src
        /\ EndsInOneNewline(Decode(sent).s)

C8_Witness ==
    /\ wrShut
    /\ payload = <<"a", "\n", "\n", "\n">>
    /\ sent = <<"a", "\n">>

\* C9: within one call the transport events are ordered: connect, write the whole
\* normalized payload, half-close, read until a zero-length read; nothing is read
\* before the half-close, nothing is written after it, and no result exists before the
\* zero-length read.
C9_TransportOrder ==
    /\ sent # <<>> => Len(conns) > 0 /\ conns[Len(conns)].owner = calls
    /\ wrShut => sent = Encode(src)
    /\ data # <<>> => wrShut
    /\ eof => wrShut /\ peer = "closed" /\ data = reply
    /\ outcome.kind = "return" => eof
    /\ parsed => eof

C9_Witness ==
    /\ Completed
    /\ outcome.kind = "return"
    /\ Len(data) > 2 * MaxSegment
    /\ sent = <<ByteC3, ByteA9, "\n">>

\* C10: every call uses a connection it opened itself, no connection is used by two
\* calls, and no connection is open once its call has returned or raised.
C10_ConnectionPerCall ==
    /\ \A c \in 1..Len(conns) :
        /\ conns[c].users = {conns[c].owner}
        /\ conns[c].open => c = sock /\ conns[c].owner = calls
        /\ \A d \in 1..Len(conns) : conns[d].owner = conns[c].owner => d = c
    /\ pc \in {"send", "shutdown", "recv", "unwrap"} => sock = Len(conns) /\ conns[sock].open
    /\ pc \in {"idle", "connect", "done"} => sock = 0 /\ \A c \in 1..Len(conns) : ~conns[c].open

C10_Witness ==
    /\ pc = "done"
    /\ calls = 2
    /\ Len(conns) = 2
    /\ outcome.exc = "RuntimeError"
    /\ \A c \in 1..Len(conns) : ~conns[c].open

\* C11: a call makes at most one connection attempt; an unreachable peer or a reset
\* mid-exchange is raised after that single attempt, and the payload is never sent
\* again.
C11_SingleAttempt ==
    /\ attempts <= 1
    /\ pc \in {"send", "shutdown", "recv", "unwrap"} => attempts = 1
    /\ (pc = "done" /\ outcome.exc = "OSError") => attempts = 1
    /\ pc # "idle" => Cardinality({c \in 1..Len(conns) : conns[c].owner = calls}) <= attempts
    /\ Len(sent) <= Len(Encode(src))
    /\ sent = SubSeq(Encode(src), 1, Len(sent))

C11_Witness ==
    /\ pc = "done"
    /\ outcome = Raise("OSError", <<>>)
    /\ attempts = 1
    /\ calls = 2
    /\ Len(conns) = 0

\* C14: once connected, the call completes (returns or raises) whenever the peer
\* has closed the connection; and there is no timeout: while the peer has not closed,
\* the call leaves the read loop only by a transport error.
C14_CompletesIffPeerCloses ==
    /\ ((sock # 0 /\ peer = "closed") ~> (pc = "done"))
    /\ [][(pc = "recv" /\ peer # "closed" /\ pc' # "recv")
            => (pc' = "done" /\ outcome' = Raise("OSError", <<>>))]_vars

C14_Witness ==
    /\ pc = "done"
    /\ eof
    /\ peer = "closed"
    /\ Len(data) > MaxSegment
    /\ outcome.kind = "return"

StartsWith(s, prefix) == Len(s) >= Len(prefix) /\ SubSeq(s, 1, Len(prefix)) = prefix

\* C12: handle_call_tool lets no failure escape: whatever the tool name, the arguments
\* and the peer do, a command ends with returned text, and every failure (of the
\* arguments, the lookup, the transport, the protocol or the reading of the result) is
\* returned as "Error: ..."; between commands nothing of the last command is left and
\* no connection is open.
C12_FailuresBecomeText ==
    /\ toolOut.kind \in {"none", "text"}
    /\ pc = "handled" => toolOut.kind = "text"
    /\ (pc = "handled" /\ toolOut.exc # "") => StartsWith(toolOut.text, SErrorPrefix)
    /\ (pc = "handled" /\ outcome.kind = "raise")
          => (toolOut.exc = outcome.exc /\ StartsWith(toolOut.text, SErrorPrefix))
    /\ (pc = "handled" /\ PreExchange(tool).kind = "raise")
          => (toolOut.exc = PreExchange(tool).exc /\ StartsWith(toolOut.text, SErrorPrefix))
    /\ pc = "idle" =>
          /\ tool = NoTool /\ toolOut = NoToolOut /\ outcome = NoOutcome
          /\ payload = <<>> /\ src = <<>> /\ sent = <<>> /\ data = <<>> /\ reply = <<>>
          /\ peer = "none" /\ sock = 0 /\ attempts = 0
          /\ \A c \in 1..Len(conns) : ~conns[c].open

C12_Witness ==
    /\ pc = "handled"
    /\ cmds > 1
    /\ tool.name = TListRobots
    /\ outcome.kind = "raise"
    /\ outcome.exc = "UnicodeDecodeError"
    /\ toolOut.text = SErrorPrefix
    /\ Len(conns) > 1

\* the command reaches the DOF method: its arguments pass the handler's own checks
ReachesLookup(t) ==
    /\ t.name \in {TAddRobot, TSetPositions, TSetVelocities, TGetState}
    /\ Truthy(t.robot_name)
    /\ t.name = TSetPositions => t.positions # PyNone
    /\ t.name = TSetVelocities => t.velocities # PyNone

\* C13: for each operation that takes a robot, a name that is not registered (after
\* lowering) raises a KeyError whose message lists every registered name, before any
\* script exists: no connection is attempted and no byte is sent.
C13_UnknownRobotFailsBeforeExchange ==
    (/\ ReachesLookup(tool)
     /\ tool.robot_name.k = "str"
     /\ ~InRegistry(Lower(tool.robot_name.s)))
    => /\ pc = "handled"
       /\ toolOut.exc = "KeyError"
       /\ Contains(toolOut.msg, SRobotQuote \o Lower(tool.robot_name.s))
       /\ \A i \in 1..Len(RobotKeys) : Contains(toolOut.msg, PyRepr(RobotKeys[i]))
       /\ attempts = 0 /\ payload = <<>> /\ sent = <<>> /\ peer = "none" /\ sock = 0
       /\ outcome = NoOutcome

C13_Witness ==
    /\ pc = "handled"
    /\ tool.name = TSetVelocities
    /\ tool.robot_name = PyStr(<<"r", "2", "d", "2">>)
    /\ toolOut.exc = "KeyError"
    /\ Contains(toolOut.text, PyRepr(RobotKeys[Len(RobotKeys)]))
    /\ attempts = 0

\* C15: whenever DOF.add_robot returns, the add_robot command answers with the display
\* name of the robot followed by " added to DOF simulation", for every name the
\* case-insensitive lookup accepts.
C15_AddRobotNamesRobot ==
    (/\ pc = "handled"
     /\ tool.name = TAddRobot
     /\ outcome.kind = "return"
     /\ outcome.val.k = "str")
    => toolOut.text = ROBOT_CONFIGS(Lower(tool.robot_name.s)).name \o SAdded

\* C16: for every command, when the text the exchange returned is a JSON object whose
\* status is "error", the command answers "Error: ..." and never a success message.
C16_ErrorStatusReported ==
    (/\ pc = "handled"
     /\ outcome.kind = "return"
     /\ outcome.val.k = "str"
     /\ Loads(outcome.val.s).ok
     /\ Loads(outcome.val.s).v.k = "dict"
     /\ IsStr(DictGet(Loads(outcome.val.s).v.items, KStatus, PyNone), KError))
    => StartsWith(toolOut.text, SErrorPrefix)

====
